---- MODULE Spec2Model ----
(***************************************************************************)
(* A model of the LegalInsight RAG pipeline:                               *)
(*   src/src/ingestion/ingest_docs.py  clean_text, load_documents,         *)
(*                                     split_text, save_to_chroma,         *)
(*                                     run_ingestion_pipeline              *)
(*   src/src/retrieval/search.py       query_vector_db                     *)
(*   src/src/llm/rag_engine.py         get_llm, run_rag_pipeline           *)
(*   src/src/app.py                    the sessions that call them         *)
(*                                                                         *)
(* A text is a sequence of characters; a character is a string naming it   *)
(* ("SP" a space, "NL" a line break, "HY" a hyphen, "ACUTE" the detached   *)
(* acute accent, "a_acute" the letter a with its accent, ...).             *)
(***************************************************************************)
EXTENDS Integers, Sequences, FiniteSets, TLC

VARIABLES
    \* the normalizer applied twice to one input
    raw, pass1, pass2, npc,
    \* load_documents applied to one data directory
    pdf_files, documents, lpc,
    \* split_text applied to one list of pages
    pages, chunks, cpc,
    \* the deployed system: the index directory, the configuration, the sessions
    \* and the ingestion runs begun; complete is the last completely written
    \* index, wiped whether a run that found an index has ended early with no
    \* run saving one since
    db, cfg, pc, loc, runs, complete, wiped

normVars == <<raw, pass1, pass2, npc>>
loadVars == <<pdf_files, documents, lpc>>
splitVars == <<pages, chunks, cpc>>
sysVars == <<db, cfg, pc, loc, runs, complete, wiped>>
vars == <<raw, pass1, pass2, npc, pdf_files, documents, lpc, pages, chunks, cpc,
          db, cfg, pc, loc, runs, complete, wiped>>

----------------------------------------------------------------------------
(* Bounds of the model *)

\* longest raw text the normalizer is tried on
MaxLen == 4

\* The sequences over S of length at most n
SeqUpTo(S, n) == UNION {[1..k -> S] : k \in 0..n}

----------------------------------------------------------------------------
(* clean_text: ingest_docs.py 28-54 *)

\* Python's \s on the characters of the model
IsSpace(c) == c \in {"SP", "NL", "TAB"}

\* The dict `replacements`, in insertion order: <<mark, letter, replacement>>
\* stands for the pattern  mark \s? letter.
replacements ==
    << <<"ACUTE", "a", "a_acute">>, <<"ACUTE", "e", "e_acute">>,
       <<"ACUTE", "i", "i_acute">>, <<"ACUTE", "o", "o_acute">>,
       <<"ACUTE", "u", "u_acute">>,
       <<"ACUTE", "A", "A_acute">>, <<"ACUTE", "E", "E_acute">>,
       <<"ACUTE", "I", "I_acute">>, <<"ACUTE", "O", "O_acute">>,
       <<"ACUTE", "U", "U_acute">>,
       <<"TILDE", "n", "n_tilde">>, <<"TILDE", "N", "N_tilde">>,
       <<"DIAER", "u", "u_diaer">>, <<"DIAER", "U", "U_diaer">> >>

\* re.sub(mark \s? letter, repl, t) from position i on: leftmost match first,
\* \s? greedy (one whitespace character when the letter follows it, else none),
\* the scan resuming after each match.
RECURSIVE SubMarkFrom(_, _, _)
SubMarkFrom(t, i, r) ==
    IF i > Len(t) THEN <<>>
    ELSE IF t[i] = r[1] /\ i + 2 <= Len(t) /\ IsSpace(t[i + 1]) /\ t[i + 2] = r[2]
        THEN <<r[3]>> \o SubMarkFrom(t, i + 3, r)
    ELSE IF t[i] = r[1] /\ i + 1 <= Len(t) /\ t[i + 1] = r[2]
        THEN <<r[3]>> \o SubMarkFrom(t, i + 2, r)
    ELSE <<t[i]>> \o SubMarkFrom(t, i + 1, r)

\* The for loop of lines 45-46: one re.sub per entry of the dict, in order
RECURSIVE FixMarks(_, _)
FixMarks(t, k) ==
    IF k > Len(replacements) THEN t
    ELSE FixMarks(SubMarkFrom(t, 1, replacements[k]), k + 1)

\* The end of the whitespace run that starts at i (i - 1 when there is none)
RECURSIVE SpaceRunEnd(_, _)
SpaceRunEnd(t, i) ==
    IF i <= Len(t) /\ IsSpace(t[i]) THEN SpaceRunEnd(t, i + 1) ELSE i - 1

\* The last line break in t[lo..hi], 0 when there is none
LastBreak(t, lo, hi) ==
    LET S == {j \in lo..hi : t[j] = "NL"}
    IN  IF S = {} THEN 0 ELSE CHOOSE j \in S : \A m \in S : m <= j

\* re.sub(r"-\s*\n", "", t) from position i on: \s* is greedy and backtracks to
\* the last line break of the whitespace run after the hyphen.
RECURSIVE FixHyphens(_, _)
FixHyphens(t, i) ==
    IF i > Len(t) THEN <<>>
    ELSE IF t[i] = "HY" /\ LastBreak(t, i + 1, SpaceRunEnd(t, i + 1)) > 0
        THEN FixHyphens(t, LastBreak(t, i + 1, SpaceRunEnd(t, i + 1)) + 1)
    ELSE <<t[i]>> \o FixHyphens(t, i + 1)

\* re.sub(r"\s+", " ", t) from position i on
RECURSIVE CollapseSpaces(_, _)
CollapseSpaces(t, i) ==
    IF i > Len(t) THEN <<>>
    ELSE IF IsSpace(t[i]) THEN <<"SP">> \o CollapseSpaces(t, SpaceRunEnd(t, i) + 1)
    ELSE <<t[i]>> \o CollapseSpaces(t, i + 1)

\* str.strip()
RECURSIVE Strip(_)
Strip(t) ==
    IF t = <<>> THEN t
    ELSE IF IsSpace(Head(t)) THEN Strip(Tail(t))
    ELSE IF IsSpace(t[Len(t)]) THEN Strip(SubSeq(t, 1, Len(t) - 1))
    ELSE t

clean_text(t) == Strip(CollapseSpaces(FixHyphens(FixMarks(t, 1), 1), 1))

\* The characters the raw texts of the model are made of
Alphabet == {"ACUTE", "SP", "NL", "HY", "a", "x"}

NormInit ==
    /\ raw \in SeqUpTo(Alphabet, MaxLen)
    /\ pass1 = <<>>
    /\ pass2 = <<>>
    /\ npc = "raw"

\* clean_text(x)
CleanOnce ==
    /\ npc = "raw"
    /\ pass1' = clean_text(raw)
    /\ npc' = "once"
    /\ UNCHANGED <<raw, pass2, pdf_files, documents, lpc, pages, chunks, cpc,
                   db, cfg, pc, loc, runs, complete, wiped>>

\* clean_text(clean_text(x))
CleanTwice ==
    /\ npc = "once"
    /\ pass2' = clean_text(pass1)
    /\ npc' = "twice"
    /\ UNCHANGED <<raw, pass1, pdf_files, documents, lpc, pages, chunks, cpc,
                   db, cfg, pc, loc, runs, complete, wiped>>

----------------------------------------------------------------------------
(* load_documents: ingest_docs.py 56-80 *)

\* most PDF files in the data directory, most pages in a file
MaxFiles == 2
MaxPages == 2

\* Two raw pages: one whose cleaning changes it, and a blank one
TextPage == <<"x", "ACUTE", "SP", "a">>
BlankPage == <<"SP", "NL">>
SamplePages == {TextPage, BlankPage}

\* A PDF file: whether PyPDFLoader(pdf_file).load() returns (ok) or raises,
\* and the text of the pages it returns
Files == [ok : BOOLEAN, pages : SeqUpTo(SamplePages, MaxPages)]

\* Lines 66-78, one iteration: the pages of one file, each cleaned in place and
\* carrying its metadata; nothing when the loader raises (the except clause
\* prints and goes on to the next file).
LoadFile(pdf_file, f) ==
    IF pdf_file.ok
    THEN [p \in 1..Len(pdf_file.pages) |->
            [page_content |-> clean_text(pdf_file.pages[p]), source |-> f, page |-> p]]
    ELSE <<>>

RECURSIVE LoadFrom(_, _)
LoadFrom(files, f) ==
    IF f > Len(files) THEN <<>>
    ELSE LoadFile(files[f], f) \o LoadFrom(files, f + 1)

\* A loop that stops at the first file whose loader raises
RECURSIVE LoadUntilFailure(_, _)
LoadUntilFailure(files, f) ==
    IF f > Len(files) \/ ~files[f].ok THEN <<>>
    ELSE LoadFile(files[f], f) \o LoadUntilFailure(files, f + 1)

load_documents_aborts(files) == LoadUntilFailure(files, 1)

load_documents(files) == LoadFrom(files, 1)

LoadInit ==
    /\ pdf_files \in SeqUpTo(Files, MaxFiles)
    /\ documents = <<>>
    /\ lpc = "start"

LoadDocuments ==
    /\ lpc = "start"
    /\ documents' = load_documents(pdf_files)
    /\ lpc' = "loaded"
    /\ UNCHANGED <<pdf_files, raw, pass1, pass2, npc, pages, chunks, cpc,
                   db, cfg, pc, loc, runs, complete, wiped>>

----------------------------------------------------------------------------
(* split_text: ingest_docs.py 82-96.  RecursiveCharacterTextSplitter with    *)
(* length_function=len and the default separators.  A text is given run-     *)
(* length encoded: a sequence of runs [c, n], n copies of the character c,   *)
(* whitespace written one character a run.                                   *)

chunk_size == 1000
chunk_overlap == 200

\* most runs and page breaks of the pages the chunker is tried on
MaxText == 4

Run(c, n) == [c |-> c, n |-> n]

\* The runs the pages of the model are made of, and the break between pages
SampleRuns == {Run("x", 150), Run("x", 600), Run("x", 1100), Run("SP", 1), Run("NL", 1)}
PageBreak == Run("PB", 0)

\* A text of single characters as runs
Runs(t) == [i \in 1..Len(t) |-> Run(t[i], 1)]

RECURSIVE Sum(_)
Sum(s) == IF s = <<>> THEN 0 ELSE Head(s) + Sum(Tail(s))

\* len(text)
TextLen(t) == Sum([i \in 1..Len(t) |-> t[i].n])

Max(a, b) == IF a >= b THEN a ELSE b
Least(a, b) == IF a <= b THEN a ELSE b

\* The position (from 0) of the first character at or after position a that is
\* not whitespace; len(text) when there is none.  Run i begins at `off`.
RECURSIVE FirstInk(_, _, _, _)
FirstInk(t, i, off, a) ==
    IF i > Len(t) THEN off
    ELSE IF ~IsSpace(t[i].c) /\ off + t[i].n > a THEN Max(off, a)
    ELSE FirstInk(t, i + 1, off + t[i].n, a)

\* The position of the last character before position b that is not
\* whitespace; `best` (-1) when there is none
RECURSIVE LastInk(_, _, _, _, _)
LastInk(t, i, off, b, best) ==
    IF i > Len(t) \/ off >= b THEN best
    ELSE LastInk(t, i + 1, off + t[i].n, b,
                 IF IsSpace(t[i].c) THEN best ELSE Least(off + t[i].n, b) - 1)

\* len(text[a:b].strip())
Stripped(t, a, b) ==
    LET p == FirstInk(t, 1, 0, a)
        q == LastInk(t, 1, 0, b, -1)
    IN  IF p <= q THEN q - p + 1 ELSE 0

RECURSIVE Concat(_)
Concat(ps) == IF ps = <<>> THEN <<>> ELSE Head(ps) \o Concat(Tail(ps))

\* _join_docs with separator "": the pieces joined and stripped, as the list
\* of the one length, or nothing when the text is empty (None)
_join_docs(cur) ==
    LET text == Concat(cur)
        n == Stripped(text, 0, TextLen(text))
    IN  IF n > 0 THEN <<n>> ELSE <<>>

\* The separators of the splitter: "\n\n", "\n", " ", ""
separators == << <<"NL", "NL">>, <<"NL">>, <<"SP">>, <<>> >>

\* Whether the separator stands at run i of the text
SepAt(t, i, sep) ==
    /\ i + Len(sep) - 1 <= Len(t)
    /\ \A j \in 1..Len(sep) : t[i + j - 1].c = sep[j]

\* re.search(separator, text)
HasSep(t, sep) == \E i \in 1..Len(t) : SepAt(t, i, sep)

\* _split_text_with_regex with keep_separator: the text before the first
\* separator, then each separator with the text after it; empty pieces dropped
RECURSIVE SplitAt(_, _, _, _)
SplitAt(t, i, cur, sep) ==
    IF i > Len(t) THEN (IF cur # <<>> THEN <<cur>> ELSE <<>>)
    ELSE IF SepAt(t, i, sep)
    THEN (IF cur # <<>> THEN <<cur>> ELSE <<>>)
         \o SplitAt(t, i + Len(sep), SubSeq(t, i, i + Len(sep) - 1), sep)
    ELSE SplitAt(t, i + 1, Append(cur, t[i]), sep)

_split_text_with_regex(t, sep) == SplitAt(t, 1, <<>>, sep)

\* _merge_splits, the popping loop: drop pieces from the front of current_doc
\* while it is longer than the overlap, or too long to take the next piece
RECURSIVE Pop(_, _, _)
Pop(cur, total, len) ==
    IF cur # <<>> /\ (total > chunk_overlap \/ (total + len > chunk_size /\ total > 0))
    THEN Pop(Tail(cur), total - TextLen(Head(cur)), len)
    ELSE <<cur, total>>

\* _merge_splits with separator "": the lengths of the documents it returns
RECURSIVE MergeFrom(_, _, _, _)
MergeFrom(p, i, cur, total) ==
    IF i > Len(p) THEN _join_docs(cur)
    ELSE IF total + TextLen(p[i]) > chunk_size
        THEN LET kept == Pop(cur, total, TextLen(p[i]))
             IN  _join_docs(cur)
                 \o MergeFrom(p, i + 1, Append(kept[1], p[i]), kept[2] + TextLen(p[i]))
    ELSE MergeFrom(p, i + 1, Append(cur, p[i]), total + TextLen(p[i]))

_merge_splits(p) == MergeFrom(p, 1, <<>>, 0)

\* _merge_splits over the single characters of the text (the separator ""):
\* current_doc begins at position s.  A document is emitted when the next
\* character would pass chunk_size, and the popping loop then keeps
\* chunk_overlap characters; each document is stripped, and dropped when empty.
RECURSIVE MergeChars(_, _)
MergeChars(t, s) ==
    IF TextLen(t) - s <= chunk_size
    THEN (IF Stripped(t, s, TextLen(t)) > 0 THEN <<Stripped(t, s, TextLen(t))>> ELSE <<>>)
    ELSE (IF Stripped(t, s, s + chunk_size) > 0 THEN <<Stripped(t, s, s + chunk_size)>> ELSE <<>>)
         \o MergeChars(t, s + chunk_size - chunk_overlap)

\* _split_text, the choice of the separator: the first of separators[k..]
\* found in the text, "" when there is none
SepIndex(t, k) ==
    CHOOSE j \in k..Len(separators) :
        /\ separators[j] = <<>> \/ HasSep(t, separators[j])
        /\ \A i \in k..(j - 1) : separators[i] # <<>> /\ ~HasSep(t, separators[i])

\* _split_text(text, separators[k..]): the pieces shorter than chunk_size are
\* merged, a longer one is split with the separators that follow; `good` are
\* the pieces not yet merged, from piece i on.
RECURSIVE _split_text(_, _), SplitFrom(_, _, _, _)
_split_text(t, k) ==
    LET j == SepIndex(t, k)
    IN  IF separators[j] = <<>> THEN MergeChars(t, 0)
        ELSE SplitFrom(_split_text_with_regex(t, separators[j]), 1, <<>>, j + 1)

SplitFrom(p, i, good, k) ==
    IF i > Len(p) THEN _merge_splits(good)
    ELSE IF TextLen(p[i]) < chunk_size THEN SplitFrom(p, i + 1, Append(good, p[i]), k)
    ELSE _merge_splits(good) \o _split_text(p[i], k) \o SplitFrom(p, i + 1, <<>>, k)

\* RecursiveCharacterTextSplitter.split_text of one page: the lengths of its
\* chunks
SplitPage(t) == _split_text(t, 1)

\* split_documents: each page on its own, its chunks keeping its metadata;
\* size is len(page_content) of the chunk
RECURSIVE ChunksFrom(_, _)
ChunksFrom(ps, i) ==
    IF i > Len(ps) THEN <<>>
    ELSE LET sizes == SplitPage(ps[i])
         IN  [k \in 1..Len(sizes) |-> [page |-> i, size |-> sizes[k]]]
             \o ChunksFrom(ps, i + 1)

split_text(ps) == ChunksFrom(ps, 1)

\* The pages of an input written as runs and page breaks
RECURSIVE PagesOf(_, _, _)
PagesOf(f, i, cur) ==
    IF i > Len(f) THEN <<cur>>
    ELSE IF f[i] = PageBreak THEN <<cur>> \o PagesOf(f, i + 1, <<>>)
    ELSE PagesOf(f, i + 1, Append(cur, f[i]))

SplitInit ==
    /\ pages \in {PagesOf(f, 1, <<>>) : f \in SeqUpTo(SampleRuns \cup {PageBreak}, MaxText)}
    /\ chunks = <<>>
    /\ cpc = "start"

SplitText ==
    /\ cpc = "start"
    /\ chunks' = split_text(pages)
    /\ cpc' = "split"
    /\ UNCHANGED <<pages, raw, pass1, pass2, npc, pdf_files, documents, lpc,
                   db, cfg, pc, loc, runs, complete, wiped>>

----------------------------------------------------------------------------
(* The deployed system: sessions of app.py (and the command lines of the     *)
(* three scripts) running run_ingestion_pipeline, query_vector_db and        *)
(* run_rag_pipeline against the one index directory DB_PATH.                 *)

Sessions == {"s1", "s2"}

\* most ingestion runs in one behaviour
MaxRuns == 2

\* LLM_PROVIDER and whether OPENAI_API_KEY is set (rag_engine.py 22-23, 28)
Configs ==
    { [provider |-> "ollama", api_key |-> FALSE],
      [provider |-> "openai", api_key |-> TRUE],
      [provider |-> "openai", api_key |-> FALSE],
      [provider |-> "other", api_key |-> TRUE] }

\* The configurations get_llm raises ValueError on
BadConfig(c) == (c.provider = "openai" /\ ~c.api_key) \/ c.provider \notin {"openai", "ollama"}

\* The index directory: whether it exists, and its entries in insertion order;
\* an entry <<r, i>> is chunk i of ingestion run r (run 0 was before Init).
\* The entries stand for the files of the directory: an existing directory
\* without entries is an empty one.
Absent == [exists |-> FALSE, entries |-> <<>>]
Written(r, n) == [exists |-> TRUE, entries |-> [i \in 1..n |-> <<r, i>>]]

DbEmpty == ~db.exists \/ db.entries = <<>>

Range(f) == {f[i] : i \in DOMAIN f}
Min(a, b) == Least(a, b)

\* The data directories the runs of the system find: no PDF; one unreadable
\* PDF; one PDF of a blank page; an unreadable PDF and a one-page PDF; one PDF
\* of two pages.
DataDirs ==
    { <<>>,
      << [ok |-> FALSE, pages |-> <<>>] >>,
      << [ok |-> TRUE, pages |-> <<BlankPage>>] >>,
      << [ok |-> FALSE, pages |-> <<>>], [ok |-> TRUE, pages |-> <<TextPage>>] >>,
      << [ok |-> TRUE, pages |-> <<TextPage, TextPage>>] >> }

\* A session's locals.  op: what it runs; run, n, written: the ingestion run,
\* len(chunks) and the chunks stored so far; had: the entries in the index when
\* the run began; todo: what shutil.rmtree has listed and not yet removed; out: how the call ended; qout, hits: how query_vector_db
\* ended and what it returned; llm, invoked: get_llm and rag_chain.invoke
\* reached.
IdleLoc ==
    [op |-> "none", run |-> 0, n |-> 0, written |-> 0, had |-> 0, todo |-> <<>>,
     out |-> "none",
     qout |-> "none", hits |-> {}, llm |-> FALSE, invoked |-> FALSE]

IngestActive == {"i_check", "i_rm", "i_unlink", "i_load", "i_embed", "i_write"}
NoIngest == \A t \in Sessions : pc[t] \notin IngestActive
AllIdle == \A t \in Sessions : pc[t] = "idle"

SysInit ==
    /\ db \in {Absent, Written(0, 1)}
    /\ cfg \in Configs
    /\ pc = [s \in Sessions |-> "idle"]
    /\ loc = [s \in Sessions |-> IdleLoc]
    /\ runs = 0
    /\ complete = db
    /\ wiped = FALSE

\* The variables of the parts that are not running
NormIdle == raw = <<>> /\ pass1 = <<>> /\ pass2 = <<>> /\ npc = "off"
LoadIdle == pdf_files = <<>> /\ documents = <<>> /\ lpc = "off"
SplitIdle == pages = <<>> /\ chunks = <<>> /\ cpc = "off"
SysIdle ==
    /\ db = Absent /\ cfg = [provider |-> "ollama", api_key |-> FALSE]
    /\ pc = [s \in Sessions |-> "off"] /\ loc = [s \in Sessions |-> IdleLoc]
    /\ runs = 0 /\ complete = Absent /\ wiped = FALSE

pureVars == <<raw, pass1, pass2, npc, pdf_files, documents, lpc, pages, chunks, cpc>>

\* src.utils.embeddings.get_embedding_model: TRUE when it returns the model,
\* FALSE when it raises (missing weights, or the hosted backend refusing)
get_embedding_model == BOOLEAN

(* run_ingestion_pipeline: ingest_docs.py 113-137 *)

\* app.py 71 / ingest_docs.py 140: a run begins
IngestStart(s) ==
    /\ pc[s] = "idle"
    /\ runs < MaxRuns
    /\ runs' = runs + 1
    /\ pc' = [pc EXCEPT ![s] = "i_check"]
    /\ loc' = [loc EXCEPT ![s] = [IdleLoc EXCEPT !.op = "ingest", !.run = runs + 1,
                                                !.had = Len(db.entries)]]
    /\ UNCHANGED <<db, cfg, complete, wiped, pureVars>>

\* line 117: os.path.exists(DB_PATH)
IngestCheck(s) ==
    /\ pc[s] = "i_check"
    /\ pc' = [pc EXCEPT ![s] = IF db.exists THEN "i_rm" ELSE "i_load"]
    /\ UNCHANGED <<db, cfg, loc, runs, complete, wiped, pureVars>>

\* A run that leaves the old directory in place
IngestRemoveKeeps(s) ==
    /\ pc[s] = "i_rm"
    /\ pc' = [pc EXCEPT ![s] = "i_load"]
    /\ UNCHANGED <<db, cfg, loc, runs, complete, wiped, pureVars>>

\* os.scandir: the entries of the directory in the order of the file system,
\* which is any order
Listings(entries) ==
    { [i \in 1..Len(entries) |-> entries[p[i]]] : p \in Permutations(1..Len(entries)) }

\* lines 118-120: shutil.rmtree(DB_PATH) begins by listing the directory; it
\* raises when another run has removed the directory since the check, and the
\* exception leaves the pipeline.
IngestRemove(s) ==
    /\ pc[s] = "i_rm"
    /\ IF db.exists
       THEN /\ pc' = [pc EXCEPT ![s] = "i_unlink"]
            /\ \E listing \in Listings(db.entries) :
                 loc' = [loc EXCEPT ![s].todo = listing]
       ELSE /\ pc' = [pc EXCEPT ![s] = "i_done"]
            /\ loc' = [loc EXCEPT ![s].out = "raised"]
    /\ UNCHANGED <<db, cfg, runs, complete, wiped, pureVars>>

\* shutil.rmtree, line 120: remove the next listed entry; it raises when
\* another run's rmtree has removed it first.
IngestUnlink(s) ==
    /\ pc[s] = "i_unlink"
    /\ loc[s].todo # <<>>
    /\ LET e == Head(loc[s].todo)
       IN  IF db.exists /\ e \in Range(db.entries)
           THEN /\ db' = [db EXCEPT !.entries = SelectSeq(@, LAMBDA x : x # e)]
                /\ pc' = pc
                /\ loc' = [loc EXCEPT ![s].todo = Tail(@)]
           ELSE /\ db' = db
                /\ pc' = [pc EXCEPT ![s] = "i_done"]
                /\ loc' = [loc EXCEPT ![s].todo = <<>>, ![s].out = "raised"]
    /\ UNCHANGED <<cfg, runs, complete, wiped, pureVars>>

\* shutil.rmtree, line 120: with the listed entries removed, remove the
\* directory itself; it raises when the directory is gone, or holds what
\* another session has added since the listing, and then the directory stays.
IngestRmdir(s) ==
    /\ pc[s] = "i_unlink"
    /\ loc[s].todo = <<>>
    /\ IF db.exists /\ db.entries = <<>>
       THEN /\ db' = Absent
            /\ pc' = [pc EXCEPT ![s] = "i_load"]
            /\ loc' = loc
       ELSE /\ db' = db
            /\ pc' = [pc EXCEPT ![s] = "i_done"]
            /\ loc' = [loc EXCEPT ![s].out = "raised"]
    /\ UNCHANGED <<cfg, runs, complete, wiped, pureVars>>

\* lines 122-135 up to the call of save_to_chroma: load and clean the PDFs of
\* the data directory, split them; return early when nothing loaded, finish
\* without saving when there is no chunk.
IngestLoad(s) ==
    /\ pc[s] = "i_load"
    /\ \E files \in DataDirs :
         LET raw_docs == load_documents(files)
             cks == split_text([i \in 1..Len(raw_docs) |-> Runs(raw_docs[i].page_content)])
         IN  IF raw_docs = <<>>
             THEN /\ pc' = [pc EXCEPT ![s] = "i_done"]
                  /\ loc' = [loc EXCEPT ![s].out = "no_docs"]
                  /\ wiped' = (wiped \/ loc[s].had > 0)
             ELSE IF cks = <<>>
             THEN /\ pc' = [pc EXCEPT ![s] = "i_done"]
                  /\ loc' = [loc EXCEPT ![s].out = "no_chunks"]
                  /\ wiped' = (wiped \/ loc[s].had > 0)
             ELSE /\ pc' = [pc EXCEPT ![s] = "i_embed"]
                  /\ loc' = [loc EXCEPT ![s].n = Len(cks)]
                  /\ wiped' = wiped
    /\ UNCHANGED <<db, cfg, runs, complete, pureVars>>

\* save_to_chroma, line 99: get_embedding_model() is called outside the try,
\* so its failure leaves save_to_chroma and the pipeline as an exception.
IngestEmbed(s) ==
    /\ pc[s] = "i_embed"
    /\ \E ok \in get_embedding_model :
         IF ok
         THEN /\ pc' = [pc EXCEPT ![s] = "i_write"]
              /\ loc' = loc
         ELSE /\ pc' = [pc EXCEPT ![s] = "i_done"]
              /\ loc' = [loc EXCEPT ![s].out = "raised"]
    /\ UNCHANGED <<db, cfg, runs, complete, wiped, pureVars>>

\* save_to_chroma, lines 102-111: Chroma.from_documents opens the store,
\* creating the directory when it is missing, and adds the chunks to whatever
\* the directory holds, one chunk a step; an exception at any step is caught
\* and printed, and the directory stays with what was written.
IngestWrite(s) ==
    /\ pc[s] = "i_write"
    /\ \E ok \in BOOLEAN :
         IF ok
         THEN /\ db' = [exists |-> TRUE,
                        entries |-> Append(db.entries, <<loc[s].run, loc[s].written + 1>>)]
              /\ IF loc[s].written + 1 = loc[s].n
                 THEN /\ pc' = [pc EXCEPT ![s] = "i_done"]
                      /\ loc' = [loc EXCEPT ![s].written = @ + 1, ![s].out = "saved"]
                      /\ complete' = Written(loc[s].run, loc[s].n)
                      /\ wiped' = FALSE
                 ELSE /\ pc' = pc
                      /\ loc' = [loc EXCEPT ![s].written = @ + 1]
                      /\ UNCHANGED <<complete, wiped>>
         ELSE /\ pc' = [pc EXCEPT ![s] = "i_done"]
              /\ loc' = [loc EXCEPT ![s].out = "save_failed"]
              /\ db' = [db EXCEPT !.exists = TRUE]
              /\ UNCHANGED <<complete, wiped>>
    /\ UNCHANGED <<cfg, runs, pureVars>>

\* line 137 or 126, or the exception reaching the caller
IngestReturn(s) ==
    /\ pc[s] = "i_done"
    /\ pc' = [pc EXCEPT ![s] = "idle"]
    /\ loc' = [loc EXCEPT ![s] = IdleLoc]
    /\ UNCHANGED <<db, cfg, runs, complete, wiped, pureVars>>

\* The process running the pipeline is interrupted: the run stops where it is
Interrupt(s) ==
    /\ pc[s] \in IngestActive
    /\ pc' = [pc EXCEPT ![s] = "idle"]
    /\ loc' = [loc EXCEPT ![s] = IdleLoc]
    /\ UNCHANGED <<db, cfg, runs, complete, wiped, pureVars>>

(* query_vector_db: search.py 20-51 *)

\* search.py 60: query_vector_db(args.query, k=3) from the command line
QueryStart(s) ==
    /\ pc[s] = "idle"
    /\ pc' = [pc EXCEPT ![s] = "q_embed"]
    /\ loc' = [loc EXCEPT ![s] = [IdleLoc EXCEPT !.op = "query"]]
    /\ UNCHANGED <<db, cfg, runs, complete, wiped, pureVars>>

\* line 35: get_embedding_model(), before the index is looked for; a failure
\* leaves query_vector_db as an exception.
QueryEmbed(s) ==
    /\ pc[s] = "q_embed"
    /\ \E ok \in get_embedding_model :
         IF ok
         THEN /\ pc' = [pc EXCEPT ![s] = "q_exists"]
              /\ loc' = loc
         ELSE /\ pc' = [pc EXCEPT ![s] = "q_done"]
              /\ loc' = [loc EXCEPT ![s].qout = "raised"]
    /\ UNCHANGED <<db, cfg, runs, complete, wiped, pureVars>>

\* lines 38-40: return [] when the directory does not exist
QueryExists(s) ==
    /\ pc[s] = "q_exists"
    /\ IF db.exists
       THEN /\ pc' = [pc EXCEPT ![s] = "q_open"]
            /\ loc' = loc
       ELSE /\ pc' = [pc EXCEPT ![s] = "q_done"]
            /\ loc' = [loc EXCEPT ![s].qout = "returned", ![s].hits = {}]
    /\ UNCHANGED <<db, cfg, runs, complete, wiped, pureVars>>

\* k of the call: 3 from the command line, 5 from run_rag_pipeline
TopK(op) == IF op = "rag" THEN 5 ELSE 3

\* lines 42-45: Chroma(persist_directory=DB_PATH) opens the directory,
\* creating an empty store when it is gone; nothing catches its failure.
QueryOpen(s) ==
    /\ pc[s] = "q_open"
    /\ \E ok \in BOOLEAN :
         IF ok
         THEN /\ db' = [db EXCEPT !.exists = TRUE]
              /\ pc' = [pc EXCEPT ![s] = "q_search"]
              /\ loc' = loc
         ELSE /\ db' = db
              /\ pc' = [pc EXCEPT ![s] = "q_done"]
              /\ loc' = [loc EXCEPT ![s].qout = "raised"]
    /\ UNCHANGED <<cfg, runs, complete, wiped, pureVars>>

\* lines 47-51: similarity_search_with_score embeds the query and returns
\* min(k, entries) of the entries, which ones depends on the vectors; nothing
\* catches its failure.
QuerySearch(s) ==
    /\ pc[s] = "q_search"
    /\ \/ \E H \in SUBSET Range(db.entries) :
            /\ Cardinality(H) = Min(TopK(loc[s].op), Len(db.entries))
            /\ loc' = [loc EXCEPT ![s].qout = "returned", ![s].hits = H]
       \/ loc' = [loc EXCEPT ![s].qout = "raised"]
    /\ pc' = [pc EXCEPT ![s] = "q_done"]
    /\ UNCHANGED <<db, cfg, runs, complete, wiped, pureVars>>

\* the command line's call returns
QueryReturn(s) ==
    /\ pc[s] = "q_done"
    /\ loc[s].op = "query"
    /\ pc' = [pc EXCEPT ![s] = "idle"]
    /\ loc' = [loc EXCEPT ![s] = IdleLoc]
    /\ UNCHANGED <<db, cfg, runs, complete, wiped, pureVars>>

(* run_rag_pipeline: rag_engine.py 44-88 *)

\* app.py 110 / rag_engine.py 95: the call begins with
\* query_vector_db(question, k=5), line 49
RagStart(s) ==
    /\ pc[s] = "idle"
    /\ pc' = [pc EXCEPT ![s] = "q_embed"]
    /\ loc' = [loc EXCEPT ![s] = [IdleLoc EXCEPT !.op = "rag"]]
    /\ UNCHANGED <<db, cfg, runs, complete, wiped, pureVars>>

\* an exception of query_vector_db leaves run_rag_pipeline too
RagPropagate(s) ==
    /\ pc[s] = "q_done"
    /\ loc[s].op = "rag"
    /\ loc[s].qout = "raised"
    /\ pc' = [pc EXCEPT ![s] = "r_done"]
    /\ loc' = [loc EXCEPT ![s].out = "raised"]
    /\ UNCHANGED <<db, cfg, runs, complete, wiped, pureVars>>

\* A pipeline that goes on to the model whatever was retrieved
RagCheckAlways(s) ==
    /\ pc[s] = "q_done"
    /\ loc[s].op = "rag"
    /\ loc[s].qout = "returned"
    /\ pc' = [pc EXCEPT ![s] = "r_llm"]
    /\ UNCHANGED <<db, cfg, loc, runs, complete, wiped, pureVars>>

\* lines 51-52: if not retrieved_hits: return the sentinel
RagCheck(s) ==
    /\ pc[s] = "q_done"
    /\ loc[s].op = "rag"
    /\ loc[s].qout = "returned"
    /\ IF loc[s].hits = {}
       THEN /\ pc' = [pc EXCEPT ![s] = "r_done"]
            /\ loc' = [loc EXCEPT ![s].out = "sentinel"]
       ELSE /\ pc' = [pc EXCEPT ![s] = "r_llm"]
            /\ loc' = loc
    /\ UNCHANGED <<db, cfg, runs, complete, wiped, pureVars>>

\* line 79 and get_llm, lines 25-39
RagGetLLM(s) ==
    /\ pc[s] = "r_llm"
    /\ IF BadConfig(cfg)
       THEN /\ pc' = [pc EXCEPT ![s] = "r_done"]
            /\ loc' = [loc EXCEPT ![s].llm = TRUE, ![s].out = "config_error"]
       ELSE /\ pc' = [pc EXCEPT ![s] = "r_invoke"]
            /\ loc' = [loc EXCEPT ![s].llm = TRUE]
    /\ UNCHANGED <<db, cfg, runs, complete, wiped, pureVars>>

\* lines 83-88: rag_chain.invoke, which returns the answer or raises
RagInvoke(s) ==
    /\ pc[s] = "r_invoke"
    /\ \E ok \in BOOLEAN :
         loc' = [loc EXCEPT ![s].invoked = TRUE,
                            ![s].out = IF ok THEN "answered" ELSE "backend_error"]
    /\ pc' = [pc EXCEPT ![s] = "r_done"]
    /\ UNCHANGED <<db, cfg, runs, complete, wiped, pureVars>>

RagReturn(s) ==
    /\ pc[s] = "r_done"
    /\ pc' = [pc EXCEPT ![s] = "idle"]
    /\ loc' = [loc EXCEPT ![s] = IdleLoc]
    /\ UNCHANGED <<db, cfg, runs, complete, wiped, pureVars>>

----------------------------------------------------------------------------
(* Specifications *)

\* The sessions run concurrently
Init == NormIdle /\ LoadIdle /\ SplitIdle /\ SysInit

Next ==
    \E s \in Sessions :
        \/ IngestStart(s) \/ IngestCheck(s) \/ IngestRemove(s) \/ IngestUnlink(s)
        \/ IngestRmdir(s) \/ IngestLoad(s)
        \/ IngestEmbed(s) \/ IngestWrite(s) \/ IngestReturn(s) \/ Interrupt(s)
        \/ QueryStart(s) \/ QueryEmbed(s) \/ QueryExists(s) \/ QueryOpen(s)
        \/ QuerySearch(s)
        \/ QueryReturn(s)
        \/ RagStart(s) \/ RagPropagate(s) \/ RagCheck(s) \/ RagGetLLM(s)
        \/ RagInvoke(s) \/ RagReturn(s)

Spec == Init /\ [][Next]_vars

\* One call at a time, each run to its end (or interrupted) before the next is
\* accepted: the execution section 5 of the specification assumes
SerialIngestStart(s) == AllIdle /\ IngestStart(s)
SerialQueryStart(s) == AllIdle /\ QueryStart(s)
SerialRagStart(s) == AllIdle /\ RagStart(s)

NextSerial ==
    \E s \in Sessions :
        \/ SerialIngestStart(s) \/ IngestCheck(s) \/ IngestRemove(s) \/ IngestUnlink(s)
        \/ IngestRmdir(s) \/ IngestLoad(s)
        \/ IngestEmbed(s) \/ IngestWrite(s) \/ IngestReturn(s) \/ Interrupt(s)
        \/ SerialQueryStart(s) \/ QueryEmbed(s) \/ QueryExists(s) \/ QueryOpen(s)
        \/ QuerySearch(s)
        \/ QueryReturn(s)
        \/ SerialRagStart(s) \/ RagPropagate(s) \/ RagCheck(s) \/ RagGetLLM(s)
        \/ RagInvoke(s) \/ RagReturn(s)

SpecSerial == Init /\ [][NextSerial]_vars

\* The normalizer on every raw text of the bound
InitClean == NormInit /\ LoadIdle /\ SplitIdle /\ SysIdle
NextClean == CleanOnce \/ CleanTwice
SpecClean == InitClean /\ [][NextClean]_vars

\* load_documents on every data directory of the bounds
InitLoad == NormIdle /\ LoadInit /\ SplitIdle /\ SysIdle
NextLoad == LoadDocuments
SpecLoad == InitLoad /\ [][NextLoad]_vars

\* split_text on every list of pages of the bounds
InitSplit == NormIdle /\ LoadIdle /\ SplitInit /\ SysIdle
NextSplit == SplitText
SpecSplit == InitSplit /\ [][NextSplit]_vars

----------------------------------------------------------------------------
(* Properties *)

\* C1: the rebuild is atomic for readers: whenever a query reads the index
\* with no ingestion run in progress (calls are serial; a run may have been
\* interrupted at any step), the index directory holds the last completely
\* written index, never less.
C1_ReadersSeeCompleteIndex ==
    \A s \in Sessions :
        (pc[s] \in {"q_exists", "q_open", "q_search"} \/ (pc[s] = "q_done" /\ loc[s].qout = "returned"))
            => db = complete

\* C2: an index being rebuilt is never queried: no query that found the index
\* directory is at similarity_search_with_score while an ingestion run is
\* between the removal of the directory and the end of save_to_chroma, and no
\* two runs are in Chroma.from_documents at the same time.
C2_RebuildNeverQueried ==
    \A q, i \in Sessions :
        /\ ~(pc[q] = "q_search" /\ pc[i] \in {"i_unlink", "i_load", "i_embed", "i_write"})
        /\ (q # i => ~(pc[q] = "i_write" /\ pc[i] = "i_write"))

\* C3: clean_text is idempotent: cleaning a cleaned text changes nothing.
C3_CleanTextIdempotent == npc = "twice" => pass2 = pass1

\* C4: with the index absent or empty, query_vector_db returns an empty list
\* and does not raise, whatever happens before it looks for the index.
C4_NoIndexReturnsEmpty ==
    \A s \in Sessions :
        (pc[s] = "q_done" /\ DbEmpty) => (loc[s].qout = "returned" /\ loc[s].hits = {})

\* C5: when retrieval returns no hits, run_rag_pipeline ends with the sentinel
\* and neither get_llm nor rag_chain.invoke is reached in that call.
C5_EmptyHitsShortCircuit ==
    \A s \in Sessions :
        (/\ loc[s].op = "rag" /\ loc[s].qout = "returned" /\ loc[s].hits = {}
         /\ pc[s] \in {"r_llm", "r_invoke", "r_done"})
            => (/\ pc[s] = "r_done" /\ loc[s].out = "sentinel"
                /\ ~loc[s].llm /\ ~loc[s].invoked)

\* a call that retrieved nothing from an index that had been removed by a run
\* that loaded no document, and returned the sentinel
C5_Witness ==
    \E s \in Sessions :
        /\ pc[s] = "r_done" /\ loc[s].out = "sentinel"
        /\ loc[s].qout = "returned" /\ loc[s].hits = {}
        /\ wiped

\* C6: in any sequence of ingestion runs, a run that has written its index
\* leaves exactly its own len(chunks) entries in it: nothing of an earlier run,
\* nothing merged, nothing deduplicated.
C6_IndexHoldsExactlyRunChunks ==
    \A s \in Sessions :
        (pc[s] = "i_done" /\ loc[s].out = "saved") => db = Written(loc[s].run, loc[s].n)

\* a run that found an index of another size and has written two chunks
C6_Witness ==
    \E s \in Sessions :
        /\ pc[s] = "i_done" /\ loc[s].out = "saved"
        /\ loc[s].had > 0 /\ loc[s].n = 2 /\ loc[s].had # loc[s].n

\* C7: a missing credential or an unknown backend is fatal at startup: under
\* such a configuration no call of run_rag_pipeline is where the error comes
\* up, and none completes normally.
C7_ConfigErrorAtStartup ==
    BadConfig(cfg) =>
        \A s \in Sessions :
            pc[s] = "r_done" => loc[s].out \notin {"config_error", "sentinel", "answered"}

\* The <<file, page>> places of the pages of the files that load
LoadedPages(files) ==
    UNION { {<<f, p>> : p \in 1..Len(files[f].pages)} : f \in {g \in 1..Len(files) : files[g].ok} }

\* C8: load_documents returns exactly the cleaned pages of the files that
\* load, in file order, whichever files fail: the page p of the loadable file
\* f stands after all pages of the loadable files before f.
C8_LoadFailuresIsolated ==
    lpc = "loaded" =>
        /\ Len(documents) = Cardinality(LoadedPages(pdf_files))
        /\ \A x \in LoadedPages(pdf_files) :
             documents[Cardinality({y \in LoadedPages(pdf_files) : y[1] < x[1]}) + x[2]]
                = [page_content |-> clean_text(pdf_files[x[1]].pages[x[2]]),
                   source |-> x[1], page |-> x[2]]

\* the first file fails, the second loads with two pages
C8_Witness ==
    /\ lpc = "loaded"
    /\ Len(pdf_files) = 2 /\ ~pdf_files[1].ok /\ pdf_files[2].ok
    /\ Len(documents) = 2

CeilDiv(a, b) == (a + b - 1) \div b

\* C9: the number of chunks is the sliding-window count over the concatenated
\* length L of the pages: ceil((L - 200) / 800), and 1 when 0 < L <= 1000,
\* however the text is distributed over the pages.
C9_CountOverConcatenation ==
    cpc = "split" =>
        LET L == Sum([i \in 1..Len(pages) |-> TextLen(pages[i])])
        IN  Len(chunks) = IF L = 0 THEN 0
                          ELSE IF L <= chunk_size THEN 1
                          ELSE CeilDiv(L - chunk_overlap, chunk_size - chunk_overlap)

\* C10: a run in which no document loads, or no chunk is produced, has removed
\* the index directory and writes none; from then on, until a run saves an
\* index, every query_vector_db call returns an empty list and every
\* run_rag_pipeline call returns the sentinel.
C10_EarlyEndLeavesNoIndex ==
    \A s \in Sessions :
        /\ (pc[s] = "i_done" /\ loc[s].out \in {"no_docs", "no_chunks"}) => ~db.exists
        /\ (wiped /\ pc[s] = "q_done") => (loc[s].qout = "returned" /\ loc[s].hits = {})
        /\ (wiped /\ pc[s] = "r_done") => loc[s].out = "sentinel"

====
